---- MODULE Spec2Model ----
(***************************************************************************)
(* The two-stage minimal virtual machine of the repository:                *)
(*   src/pr3asm.py   - translate: instruction descriptors -> IR, persisted  *)
(*                     with str()                                           *)
(*   src/pr3inter.py - the persisted IR is read back with eval() and run by *)
(*                     execute against the module-level list mem            *)
(* Python semantics that decide the behaviour are modelled as they are:     *)
(* list indexing accepts -len..len-1 (a negative index counts from the      *)
(* end), raises IndexError outside of it and TypeError for a non-integer    *)
(* index; dict subscription raises KeyError carrying the absent key.        *)
(***************************************************************************)
EXTENDS Integers, Sequences, FiniteSets, TLC

VARIABLES source, ir, asmError, file, program, pc, mem, pre, fault, stage, calls

vars == <<source, ir, asmError, file, program, pc, mem, pre, fault, stage, calls>>

-----------------------------------------------------------------------------
(* Values.  A JSON / Python value is a tagged record so that integers,      *)
(* strings, None and float('nan') can live in the same cell.                *)

Num(n) == [t |-> "int", n |-> n, s |-> ""]
Str(x) == [t |-> "str", n |-> 0, s |-> x]
None == [t |-> "none", n |-> 0, s |-> ""]
NaN == [t |-> "nan", n |-> 0, s |-> ""]

IsInt(v) == v.t = "int"

-----------------------------------------------------------------------------
(* Bounds and input sets.                                                   *)

\* len(mem)
MemSize == 5

\* longest descriptor list given to the translator
MaxProg == 2

\* calls of execute made in one interpreter process, where a caller makes
\* more than the one of pr3inter.py
MaxCalls == 2

\* address operands: -1 (Python counts it from the end), two cells, and the
\* first index past the end
AddrOps == {-1, 0, 1, MemSize}

\* const values: usable as data and, once stored, as pointers
ConstVals == {-1, 1, 2, MemSize}

Shifts == {0, 1}

Cells == 0 .. (MemSize - 1)

ValidDescriptors ==
    {[op |-> Str("const"), value |-> Num(v), adress |-> Num(a)] :
        v \in ConstVals, a \in AddrOps}
    \cup {[op |-> Str(o), adressB |-> Num(b), adressC |-> Num(c)] :
        o \in {"read", "write"}, b \in AddrOps, c \in AddrOps}
    \cup {[op |-> Str("negate"), shift |-> Num(sh), adressC |-> Num(c), adressD |-> Num(d)] :
        sh \in Shifts, c \in AddrOps, d \in AddrOps}

\* descriptors with an opcode name that is none of the four
UnknownOpDescriptors ==
    {[op |-> Str("nop")], [op |-> Str("Const"), value |-> Num(1), adress |-> Num(0)]}

\* descriptors lacking a field (the first one lacks even "op")
MissingFieldDescriptors ==
    {[value |-> Num(1), adress |-> Num(0)],
     [op |-> Str("const"), adress |-> Num(0)],
     [op |-> Str("const"), value |-> Num(1)],
     [op |-> Str("const")],
     [op |-> Str("read"), adressC |-> Num(1)],
     [op |-> Str("read"), adressB |-> Num(0)],
     [op |-> Str("write"), adressC |-> Num(1)],
     [op |-> Str("write"), adressB |-> Num(0)],
     [op |-> Str("negate"), adressC |-> Num(0), adressD |-> Num(1)],
     [op |-> Str("negate"), shift |-> Num(0), adressD |-> Num(1)],
     [op |-> Str("negate"), shift |-> Num(0), adressC |-> Num(0)]}

\* descriptors whose operand is not an integer
NonIntDescriptors ==
    {[op |-> Str("const"), value |-> Str("x"), adress |-> Num(0)],
     [op |-> Str("const"), value |-> NaN, adress |-> Num(1)],
     [op |-> Str("const"), value |-> Num(1), adress |-> None],
     [op |-> Str("read"), adressB |-> Str("x"), adressC |-> Num(0)],
     [op |-> Str("negate"), shift |-> None, adressC |-> Num(0), adressD |-> Num(1)]}

\* descriptors carrying a field their opcode does not use
ExtraFieldDescriptors ==
    {[op |-> Str("const"), value |-> Num(2), adress |-> Num(0), dest |-> Num(1)],
     [op |-> Str("read"), adressB |-> Num(0), adressC |-> Num(1), shift |-> Num(1)]}

Descriptors ==
    ValidDescriptors \cup UnknownOpDescriptors \cup MissingFieldDescriptors
        \cup NonIntDescriptors \cup ExtraFieldDescriptors

\* a smaller set for the runs followed to their end: no address counted from
\* the end of the list, and of the descriptors translate does not lower only
\* those that reach the interpreter
RunDescriptors ==
    {d \in ValidDescriptors :
        \A f \in (DOMAIN d) \ {"op", "value", "shift"} : d[f].n # -1}
    \cup UnknownOpDescriptors \cup NonIntDescriptors

SeqsUpTo(S, n) == UNION {[1 .. k -> S] : k \in 0 .. n}

-----------------------------------------------------------------------------
(* src/pr3asm.py                                                            *)

Has(cmd, f) == f \in DOMAIN cmd

NoError == [kind |-> "none", key |-> ""]
KeyError(k) == [kind |-> "KeyError", key |-> k]

\* variant: the negate branch emits its pointers before the shift
FieldsReadPointersFirst(opname) ==
    CASE opname = "const" -> <<"value", "adress">>
      [] opname = "read" -> <<"adressB", "adressC">>
      [] opname = "write" -> <<"adressB", "adressC">>
      [] opname = "negate" -> <<"adressC", "adressD", "shift">>
      [] OTHER -> <<>>

\* variant: the write branch pasted with its two operands exchanged
FieldsReadPasted(opname) ==
    CASE opname = "const" -> <<"value", "adress">>
      [] opname = "read" -> <<"adressB", "adressC">>
      [] opname = "write" -> <<"adressC", "adressB">>
      [] opname = "negate" -> <<"shift", "adressC", "adressD">>
      [] OTHER -> <<>>

\* the fields the branch of an opcode subscripts, in the order it does
FieldsRead(opname) ==
    CASE opname = "const" -> <<"value", "adress">>
      [] opname = "read" -> <<"adressB", "adressC">>
      [] opname = "write" -> <<"adressB", "adressC">>
      [] opname = "negate" -> <<"shift", "adressC", "adressD">>
      [] OTHER -> <<>>

OpNames == {"const", "read", "write", "negate"}

\* variant: a descriptor lacking a field is passed over like an unknown opcode
translateCmdLenient(cmd) ==
    IF ~Has(cmd, "op") THEN [out |-> <<>>, err |-> KeyError("op")]
    ELSE IF ~(cmd.op.t = "str" /\ cmd.op.s \in OpNames) THEN [out |-> <<>>, err |-> NoError]
    ELSE LET fs == FieldsRead(cmd.op.s)
         IN IF \E i \in 1 .. Len(fs) : ~Has(cmd, fs[i])
            THEN [out |-> <<>>, err |-> NoError]
            ELSE [out |-> << <<cmd.op>> \o [i \in 1 .. Len(fs) |-> cmd[fs[i]]] >>,
                  err |-> NoError]

\* one iteration of the loop of translate: the instructions it appends (one
\* or none) and the exception it raises, if any
translateCmd(cmd) ==
    IF ~Has(cmd, "op") THEN [out |-> <<>>, err |-> KeyError("op")]
    ELSE IF ~(cmd.op.t = "str" /\ cmd.op.s \in OpNames) THEN [out |-> <<>>, err |-> NoError]
    ELSE LET fs == FieldsRead(cmd.op.s)
             absent == {i \in 1 .. Len(fs) : ~Has(cmd, fs[i])}
         IN IF absent # {}
            THEN [out |-> <<>>,
                  err |-> KeyError(fs[CHOOSE i \in absent : \A j \in absent : i <= j])]
            ELSE [out |-> << <<cmd.op>> \o [i \in 1 .. Len(fs) |-> cmd[fs[i]]] >>,
                  err |-> NoError]

RECURSIVE translateFrom(_, _, _)
translateFrom(descs, i, output) ==
    IF i > Len(descs) THEN [out |-> output, err |-> NoError]
    ELSE LET r == translateCmd(descs[i])
         IN IF r.err # NoError THEN [out |-> output, err |-> r.err]
            ELSE translateFrom(descs, i + 1, output \o r.out)

translate(descs) == translateFrom(descs, 1, <<>>)

\* repr() of a value, as the token str(ir) writes for it
repr(v) ==
    CASE v.t = "int" -> [k |-> "number", n |-> v.n, s |-> ""]
      [] v.t = "str" -> [k |-> "quoted", n |-> 0, s |-> v.s]
      [] v.t = "none" -> [k |-> "name", n |-> 0, s |-> "None"]
      [] v.t = "nan" -> [k |-> "name", n |-> 0, s |-> "nan"]

\* str(ir): one parenthesised token group per tuple
str(instrs) ==
    [i \in 1 .. Len(instrs) |-> [j \in 1 .. Len(instrs[i]) |-> repr(instrs[i][j])]]

NoFile == [written |-> FALSE, text |-> <<>>]

-----------------------------------------------------------------------------
(* src/pr3inter.py                                                          *)

\* eval() of one token; the name nan is not defined in the interpreter module;
\* a call token is the expression mem.__setitem__(0, n), whose value is None
evalToken(tok) ==
    CASE tok.k = "number" -> [ok |-> TRUE, v |-> Num(tok.n)]
      [] tok.k = "quoted" -> [ok |-> TRUE, v |-> Str(tok.s)]
      [] tok.k = "name" /\ tok.s = "None" -> [ok |-> TRUE, v |-> None]
      [] tok.k = "call" -> [ok |-> TRUE, v |-> None]
      [] OTHER -> [ok |-> FALSE, v |-> None]

\* eval(program): the list of tuples the text denotes, or NameError
eval(text) ==
    IF \A i \in 1 .. Len(text) : \A j \in 1 .. Len(text[i]) : evalToken(text[i][j]).ok
    THEN [ok |-> TRUE,
          program |-> [i \in 1 .. Len(text) |->
                          [j \in 1 .. Len(text[i]) |-> evalToken(text[i][j]).v]]]
    ELSE [ok |-> FALSE, program |-> <<>>]

\* the tokens of a text in the order eval evaluates them
RECURSIVE tokens(_)
tokens(text) == IF text = <<>> THEN <<>> ELSE Head(text) \o tokens(Tail(text))

\* the memory eval leaves when started on m: the text is evaluated as an
\* expression in the namespace of the module, where mem is bound, so a call in
\* it acts on mem; evaluation stops at the first name that is not defined
RECURSIVE evalMem(_, _)
evalMem(m, toks) ==
    IF toks = <<>> THEN m
    ELSE IF ~evalToken(Head(toks)).ok THEN m
    ELSE IF Head(toks).k = "call"
         THEN evalMem([m EXCEPT ![0] = Num(Head(toks).n)], Tail(toks))
    ELSE evalMem(m, Tail(toks))

\* variant: the list starts with a cell already set
UsedMem == [c \in Cells |-> IF c = 0 THEN Num(1) ELSE Num(0)]

\* mem = [0, 0, 0, 0, 0]
ZeroMem == [c \in Cells |-> Num(0)]

\* mem[v]: which cell a subscript denotes, or the exception it raises
index(v) ==
    IF ~IsInt(v) THEN [err |-> "TypeError", cell |-> 0]
    ELSE IF v.n >= 0 /\ v.n < MemSize THEN [err |-> "none", cell |-> v.n]
    ELSE IF v.n < 0 /\ v.n >= -MemSize THEN [err |-> "none", cell |-> v.n + MemSize]
    ELSE [err |-> "IndexError", cell |-> 0]

\* a + b as the interpreter uses it: an integer sum, or a value no subscript
\* accepts (the TypeError is raised by + or by the subscript that follows)
add(a, b) == IF IsInt(a) /\ IsInt(b) THEN Num(a.n + b.n) ELSE None

\* -value
neg(v) ==
    CASE v.t = "int" -> [err |-> "none", v |-> Num(-v.n)]
      [] v.t = "nan" -> [err |-> "none", v |-> NaN]
      [] OTHER -> [err |-> "TypeError", v |-> None]

\* variant: a fault that clears the memory
RaiseReset(m, e) == [mem |-> ZeroMem, fault |-> e]

\* an exception leaves the loop; nothing was assigned by the instruction
Raise(m, e) == [mem |-> m, fault |-> e]

\* variant: the value is appended to the list instead of assigned to the cell
StoreAppend(m, c, v) ==
    [mem |-> [i \in (DOMAIN m) \cup {Cardinality(DOMAIN m)} |->
                 IF i \in DOMAIN m THEN m[i] ELSE v],
     fault |-> "none"]

\* variant: the assignment also clears the cell after the one it writes
StoreAndClearNext(m, c, v) ==
    [mem |-> [i \in DOMAIN m |->
                 IF i = c THEN v ELSE IF i = (c + 1) % MemSize THEN Num(0) ELSE m[i]],
     fault |-> "none"]

\* mem[c] = v
Store(m, c, v) == [mem |-> [m EXCEPT ![c] = v], fault |-> "none"]

\* variant: the two operands taken in the other order
execConstSwapped(m, args) ==
    IF Len(args) < 2 THEN Raise(m, "IndexError")
    ELSE LET d == index(args[1])
         IN IF d.err # "none" THEN Raise(m, d.err) ELSE Store(m, d.cell, args[2])

execConst(m, args) ==
    IF Len(args) < 2 THEN Raise(m, "IndexError")
    ELSE LET d == index(args[2])
         IN IF d.err # "none" THEN Raise(m, d.err) ELSE Store(m, d.cell, args[1])

\* variant: both pointers are resolved on the memory of the run's start
execNegateStale(m, args) ==
    IF Len(args) < 3 THEN Raise(m, "IndexError")
    ELSE LET b == index(args[2])
         IN IF b.err # "none" THEN Raise(m, b.err)
            ELSE LET e == index(add(ZeroMem[b.cell], args[1]))
                 IN IF e.err # "none" THEN Raise(m, e.err)
                    ELSE LET nv == neg(m[e.cell])
                             p == index(args[3])
                         IN IF nv.err # "none" THEN Raise(m, nv.err)
                            ELSE IF p.err # "none" THEN Raise(m, p.err)
                            ELSE LET tg == index(ZeroMem[p.cell])
                                 IN IF tg.err # "none" THEN Raise(m, tg.err)
                                    ELSE Store(m, tg.cell, nv.v)

\* variant: the result is stored at adressD itself, not where it points
execNegateDirect(m, args) ==
    IF Len(args) < 3 THEN Raise(m, "IndexError")
    ELSE LET b == index(args[2])
         IN IF b.err # "none" THEN Raise(m, b.err)
            ELSE LET e == index(add(m[b.cell], args[1]))
                 IN IF e.err # "none" THEN Raise(m, e.err)
                    ELSE LET nv == neg(m[e.cell])
                             p == index(args[3])
                         IN IF nv.err # "none" THEN Raise(m, nv.err)
                            ELSE IF p.err # "none" THEN Raise(m, p.err)
                            ELSE Store(m, p.cell, nv.v)

execNegate(m, args) ==
    IF Len(args) < 3 THEN Raise(m, "IndexError")
    ELSE LET b == index(args[2])
         IN IF b.err # "none" THEN Raise(m, b.err)
            ELSE LET e == index(add(m[b.cell], args[1]))
                 IN IF e.err # "none" THEN Raise(m, e.err)
                    ELSE LET nv == neg(m[e.cell])
                             p == index(args[3])
                         IN IF nv.err # "none" THEN Raise(m, nv.err)
                            ELSE IF p.err # "none" THEN Raise(m, p.err)
                            ELSE LET tg == index(m[p.cell])
                                 IN IF tg.err # "none" THEN Raise(m, tg.err)
                                    ELSE Store(m, tg.cell, nv.v)

\* variant: the operand roles of write
execReadSwapped(m, args) ==
    IF Len(args) < 2 THEN Raise(m, "IndexError")
    ELSE LET sr == index(args[2])
             d == index(args[1])
         IN IF sr.err # "none" THEN Raise(m, sr.err)
            ELSE IF d.err # "none" THEN Raise(m, d.err)
            ELSE Store(m, d.cell, m[sr.cell])

execRead(m, args) ==
    IF Len(args) < 2 THEN Raise(m, "IndexError")
    ELSE LET sr == index(args[1])
             d == index(args[2])
         IN IF sr.err # "none" THEN Raise(m, sr.err)
            ELSE IF d.err # "none" THEN Raise(m, d.err)
            ELSE Store(m, d.cell, m[sr.cell])

\* variant: the operand roles of read
execWriteAsRead(m, args) == execRead(m, args)

execWrite(m, args) ==
    IF Len(args) < 2 THEN Raise(m, "IndexError")
    ELSE LET sr == index(args[2])
             d == index(args[1])
         IN IF sr.err # "none" THEN Raise(m, sr.err)
            ELSE IF d.err # "none" THEN Raise(m, d.err)
            ELSE Store(m, d.cell, m[sr.cell])

\* variant: an opcode that is none of the four raises
stepStrict(m, ins) ==
    LET op == ins[1]
        args == Tail(ins)
    IN  CASE op = Str("const") -> execConst(m, args)
          [] op = Str("negate") -> execNegate(m, args)
          [] op = Str("read") -> execRead(m, args)
          [] op = Str("write") -> execWrite(m, args)
          [] OTHER -> Raise(m, "ValueError")

\* the body of the loop of execute for one instruction (op, *args)
step(m, ins) ==
    LET op == ins[1]
        args == Tail(ins)
    IN  CASE op = Str("const") -> execConst(m, args)
          [] op = Str("negate") -> execNegate(m, args)
          [] op = Str("read") -> execRead(m, args)
          [] op = Str("write") -> execWrite(m, args)
          [] OTHER -> [mem |-> m, fault |-> "none"]

\* the memory execute leaves after the first k instructions of prog, started
\* on the zeroed memory
RECURSIVE executed(_, _)
executed(prog, k) ==
    IF k = 0 THEN ZeroMem ELSE step(executed(prog, k - 1), prog[k]).mem

-----------------------------------------------------------------------------
(* The pipeline: pr3asm.py is run on a source file, then pr3inter.py on the *)
(* file it wrote.                                                           *)

\* the source file holds one of the given descriptor lists; nothing has run
Start(lists) ==
    /\ source \in lists
    /\ ir = <<>>
    /\ asmError = NoError
    /\ file = NoFile
    /\ program = <<>>
    /\ pc = 0
    /\ mem = ZeroMem
    /\ pre = ZeroMem
    /\ fault = "none"
    /\ stage = "source"
    /\ calls = 0

Init == Start(SeqsUpTo(Descriptors, MaxProg))

\* pr3asm.py, module level: translate, then write str(ir)
Assemble ==
    /\ stage = "source"
    /\ LET r == translate(source)
       IN IF r.err # NoError
          THEN /\ asmError' = r.err
               /\ stage' = "asm_failed"
               /\ UNCHANGED <<ir, file>>
          ELSE /\ ir' = r.out
               /\ file' = [written |-> TRUE, text |-> str(r.out)]
               /\ stage' = "assembled"
               /\ UNCHANGED asmError
    /\ UNCHANGED <<source, program, pc, mem, pre, fault, calls>>

\* pr3inter.py, module level: read the file, eval it, call execute
Load ==
    /\ stage = "assembled"
    /\ file.written
    /\ LET r == eval(file.text)
       IN IF r.ok
          THEN /\ program' = r.program
               /\ stage' = "running"
               /\ calls' = 1
               /\ UNCHANGED fault
          ELSE /\ fault' = "NameError"
               /\ stage' = "load_failed"
               /\ UNCHANGED <<program, calls>>
    /\ pc' = 0
    /\ mem' = evalMem(ZeroMem, tokens(file.text))
    /\ pre' = evalMem(ZeroMem, tokens(file.text))
    /\ UNCHANGED <<source, ir, asmError, file>>

\* variant: the loop advances past the instruction after the one it ran
StepSkipping ==
    /\ stage = "running"
    /\ pc < Len(program)
    /\ LET r == step(mem, program[pc + 1])
       IN /\ mem' = r.mem
          /\ pre' = mem
          /\ IF r.fault # "none"
             THEN /\ fault' = r.fault
                  /\ stage' = "fault"
                  /\ UNCHANGED pc
             ELSE /\ pc' = pc + 2
                  /\ UNCHANGED <<fault, stage>>
    /\ UNCHANGED <<source, ir, asmError, file, program, calls>>

\* variant: the loop runs the same instruction again and again
StepStuck ==
    /\ stage = "running"
    /\ pc < Len(program)
    /\ LET r == step(mem, program[pc + 1])
       IN /\ mem' = r.mem
          /\ pre' = mem
          /\ IF r.fault # "none"
             THEN /\ fault' = r.fault
                  /\ stage' = "fault"
             ELSE UNCHANGED <<fault, stage>>
    /\ UNCHANGED <<source, ir, asmError, file, program, pc, calls>>

\* one iteration of the loop of execute
Step ==
    /\ stage = "running"
    /\ pc < Len(program)
    /\ LET r == step(mem, program[pc + 1])
       IN /\ mem' = r.mem
          /\ pre' = mem
          /\ IF r.fault # "none"
             THEN /\ fault' = r.fault
                  /\ stage' = "fault"
                  /\ UNCHANGED pc
             ELSE /\ pc' = pc + 1
                  /\ UNCHANGED <<fault, stage>>
    /\ UNCHANGED <<source, ir, asmError, file, program, calls>>

\* the loop is exhausted: execute returns and the memory is printed
Finish ==
    /\ stage = "running"
    /\ pc = Len(program)
    /\ stage' = "done"
    /\ UNCHANGED <<source, ir, asmError, file, program, pc, mem, pre, fault, calls>>

Next == Assemble \/ Load \/ Step \/ Finish

Spec == Init /\ [][Next]_vars

\* the loop of execute and the statements after it keep running: nothing in
\* the interpreter waits
FairSpec ==
    /\ Start(SeqsUpTo(RunDescriptors, MaxProg))
    /\ [][Next]_vars
    /\ WF_vars(Step)
    /\ WF_vars(Finish)

\* execute(program) is called once more in the same process, after it
\* returned: mem is the module-level list, which nothing resets
ExecuteAgain ==
    /\ stage = "done"
    /\ calls < MaxCalls
    /\ stage' = "running"
    /\ pc' = 0
    /\ calls' = calls + 1
    /\ pre' = mem
    /\ UNCHANGED <<source, ir, asmError, file, program, mem, fault>>

NextRepeated == Next \/ ExecuteAgain

\* the pipeline, with a caller of execute that calls it up to MaxCalls times
SpecRepeated == Init /\ [][NextRepeated]_vars

\* the longest file pr3inter.py is started on when somebody else wrote it
MaxFile == 3

\* tuples of such files: the four instructions, two opcodes that are not
\* instructions, and a const lacking an operand
FileTuples ==
    {<<Str("const"), Num(4), Num(4)>>,
     <<Str("const"), Num(1), Num(0)>>,
     <<Str("negate"), Num(0), Num(-1), Num(-1)>>,
     <<Str("negate"), Num(0), Num(1), Num(1)>>,
     <<Str("read"), Num(0), Num(1)>>,
     <<Str("write"), Num(3), Num(0)>>,
     <<Str("nop")>>,
     <<Str("halt"), Num(1), Num(0)>>,
     <<Str("const"), Num(1)>>}

\* their text, and two groups that are no tuples of literals: one holds the
\* call mem.__setitem__(0, 7), the other the name nan
FileGroups ==
    {str(<<t>>)[1] : t \in FileTuples}
    \cup {<<repr(Str("const")), [k |-> "call", n |-> 7, s |-> "mem.__setitem__"], repr(Num(1))>>,
          <<repr(Str("const")), repr(NaN), repr(Num(0))>>}

\* a file is in place at the path pr3inter.py is given; pr3asm.py has not run
StartOnFile(texts) ==
    /\ source = <<>>
    /\ ir = <<>>
    /\ asmError = NoError
    /\ file \in {[written |-> TRUE, text |-> t] : t \in texts}
    /\ program = <<>>
    /\ pc = 0
    /\ mem = ZeroMem
    /\ pre = ZeroMem
    /\ fault = "none"
    /\ stage = "assembled"
    /\ calls = 0

NextInterpreter == Load \/ Step \/ Finish

\* pr3inter.py alone, on any file of up to MaxFile groups
SpecInterpreter == StartOnFile(SeqsUpTo(FileGroups, MaxFile)) /\ [][NextInterpreter]_vars

-----------------------------------------------------------------------------
(* Vocabulary of the properties.                                            *)

\* an instruction has completed; Last is that instruction, pre the memory it
\* started on
Completed == stage \in {"running", "done"} /\ pc > 0
Last == program[pc]

\* the run stopped on an exception; Failing is the instruction that raised it
Faulted == stage = "fault"
Failing == program[pc + 1]

OpIs(ins, name) == ins[1] = Str(name)

\* an address inside [0, MemSize)
InRange(v) == IsInt(v) /\ v.n \in Cells

\* memory given by its cells' integers, cell 0 first
MemOf(ns) == [c \in Cells |-> Num(ns[c + 1])]

\* the addresses Negate{shift, base, destPtr} resolves on memory m
NegBase(ins) == ins[3]
NegDestPtr(ins) == ins[4]
NegEffective(m, ins) == add(m[NegBase(ins).n], ins[2])
NegTarget(m, ins) == m[NegDestPtr(ins).n]

NegateInRange(m, ins) ==
    /\ InRange(NegBase(ins))
    /\ InRange(NegDestPtr(ins))
    /\ InRange(NegEffective(m, ins))
    /\ InRange(NegTarget(m, ins))
    /\ IsInt(m[NegEffective(m, ins).n])

\* every address the instruction resolves on memory m lies in [0, MemSize)
AllInRange(m, ins) ==
    CASE OpIs(ins, "const") -> InRange(ins[3])
      [] OpIs(ins, "read") \/ OpIs(ins, "write") -> InRange(ins[2]) /\ InRange(ins[3])
      [] OpIs(ins, "negate") ->
            /\ InRange(NegBase(ins))
            /\ InRange(NegDestPtr(ins))
            /\ InRange(NegEffective(m, ins))
            /\ InRange(NegTarget(m, ins))
      [] OTHER -> TRUE

-----------------------------------------------------------------------------
(* Interpreter: instruction semantics and faults.                           *)

\* on [2, 4, 0, 9, 0], Negate{1, 0, 1} completes and leaves [2, 4, 0, 9, -9]
NegateExample ==
    step(MemOf(<<2, 4, 0, 9, 0>>), <<Str("negate"), Num(1), Num(0), Num(1)>>)
        = [mem |-> MemOf(<<2, 4, 0, 9, -9>>), fault |-> "none"]

\* C1: Negate{shift, base, destPtr} with every resolved address in range
\* completes and leaves -(m[m[base] + shift]) in the cell m[destPtr], all of
\* them read from the memory m the instruction started on; from
\* [2, 4, 0, 9, 0], Negate{1, 0, 1} leaves -9 in cell 4.
Thm_C1_Negate ==
    /\ (Completed /\ OpIs(Last, "negate") /\ NegateInRange(pre, Last))
          => mem[NegTarget(pre, Last).n] = Num(-(pre[NegEffective(pre, Last).n].n))
    /\ ~(Faulted /\ OpIs(Failing, "negate") /\ NegateInRange(mem, Failing))
    /\ NegateExample

\* C1 witness: a Negate completed that negated a non-zero value into the very
\* cell it read it from (target = effective address), with the pointer in
\* another cell.
Wit_C1_Negate ==
    /\ Completed /\ OpIs(Last, "negate") /\ NegateInRange(pre, Last)
    /\ pre[NegEffective(pre, Last).n].n # 0
    /\ NegTarget(pre, Last) = NegEffective(pre, Last)
    /\ NegTarget(pre, Last) # NegDestPtr(Last)

\* C2: Write{s, d} with s and d in range completes, leaves in cell s what cell d
\* held and leaves cell d as it was.
Thm_C2_Write ==
    /\ (Completed /\ OpIs(Last, "write") /\ InRange(Last[2]) /\ InRange(Last[3]))
          => /\ mem[Last[2].n] = pre[Last[3].n]
             /\ mem[Last[3].n] = pre[Last[3].n]
    /\ ~(Faulted /\ OpIs(Failing, "write") /\ InRange(Failing[2]) /\ InRange(Failing[3]))

\* C2 witness: a Write completed between two different cells holding different
\* values.
Wit_C2_Write ==
    /\ Completed /\ OpIs(Last, "write") /\ InRange(Last[2]) /\ InRange(Last[3])
    /\ Last[2] # Last[3]
    /\ pre[Last[2].n] # pre[Last[3].n]

\* C3 (as claimed): an instruction whose resolved addresses are not all inside
\* [0, MemSize) never completes - the run faults instead.
Cex_C3_OutOfRangeFaults ==
    Completed => AllInRange(pre, Last)

\* C4: when the run faults at instruction index i, the memory is the one the
\* instructions 0..i-1 produced: the failing instruction wrote nothing, and
\* nothing runs after it.
Thm_C4_FaultKeepsPrefix ==
    Faulted => /\ mem = pre
               /\ mem = executed(program, pc)
               /\ ~ENABLED Next

\* C4 witness: a fault at the second instruction, after a first one that
\* changed the memory.
Wit_C4_FaultKeepsPrefix ==
    Faulted /\ pc = 1 /\ mem # ZeroMem

\* memories other than the zeroed one a run starts on
AnyMems == [Cells -> {Num(-3), Num(7)}]

\* on any memory, Const{v, d} then Read{d, d2} complete and leave v in cell d2
ConstThenReadOnAnyMemory ==
    \A m \in AnyMems, v \in ConstVals, d \in Cells, d2 \in Cells :
        LET afterConst == step(m, <<Str("const"), Num(v), Num(d)>>)
            afterRead == step(afterConst.mem, <<Str("read"), Num(d), Num(d2)>>)
        IN /\ afterConst.fault = "none"
           /\ afterRead.fault = "none"
           /\ afterRead.mem[d2] = Num(v)

\* the instruction before the last completed one
Before == program[pc - 1]

\* C10: Const{v, d} immediately followed by Read{d, d2}, d and d2 in range
\* (d2 = d included), completes and leaves v in cell d2, whatever the memory
\* before.
Thm_C10_ConstThenRead ==
    /\ (Completed /\ pc >= 2 /\ OpIs(Before, "const") /\ OpIs(Last, "read")
            /\ InRange(Before[3]) /\ Last[2] = Before[3] /\ InRange(Last[3]))
          => mem[Last[3].n] = Before[2]
    /\ ~(Faulted /\ pc >= 1 /\ OpIs(program[pc], "const") /\ OpIs(Failing, "read")
            /\ InRange(program[pc][3]) /\ Failing[2] = program[pc][3]
            /\ InRange(Failing[3]))
    /\ ConstThenReadOnAnyMemory

\* C10 witness: Const{v, d}; Read{d, d2} completed with d2 another cell than d.
Wit_C10_ConstThenRead ==
    /\ Completed /\ pc >= 2 /\ OpIs(Before, "const") /\ OpIs(Last, "read")
    /\ InRange(Before[3]) /\ Last[2] = Before[3] /\ InRange(Last[3])
    /\ Last[3] # Last[2]
    /\ mem[Last[3].n] # Num(0)

\* C11: Const{value, dest} with dest in range completes and leaves value in
\* cell dest, whatever the cell held.
Thm_C11_Const ==
    /\ (Completed /\ OpIs(Last, "const") /\ InRange(Last[3]))
          => mem[Last[3].n] = Last[2]
    /\ ~(Faulted /\ OpIs(Failing, "const") /\ InRange(Failing[3]))

\* C11 witness: a Const completed on a cell that held another, non-zero value.
Wit_C11_Const ==
    /\ Completed /\ OpIs(Last, "const") /\ InRange(Last[3])
    /\ pre[Last[3].n] # Num(0)
    /\ pre[Last[3].n] # Last[2]

\* C12: Read{src, dest} with both addresses in range completes, leaves in cell
\* dest what cell src held before, and leaves cell src as it was when src and
\* dest differ.
Thm_C12_Read ==
    /\ (Completed /\ OpIs(Last, "read") /\ InRange(Last[2]) /\ InRange(Last[3]))
          => /\ mem[Last[3].n] = pre[Last[2].n]
             /\ Last[2] # Last[3] => mem[Last[2].n] = pre[Last[2].n]
    /\ ~(Faulted /\ OpIs(Failing, "read") /\ InRange(Failing[2]) /\ InRange(Failing[3]))

\* C12 witness: a Read completed from a cell into another one that held a
\* different value.
Wit_C12_Read ==
    /\ Completed /\ OpIs(Last, "read") /\ InRange(Last[2]) /\ InRange(Last[3])
    /\ Last[2] # Last[3]
    /\ pre[Last[2].n] # pre[Last[3].n]

\* the memory the instructions before the last completed one produced
Current == executed(program, pc - 1)

\* C13: a Negate that follows other instructions resolves mem[base] + shift,
\* the value there and mem[destPtr] on the memory those instructions produced,
\* and changes that memory in the target cell only.
Thm_C13_NegateAtExecutionTime ==
    (Completed /\ pc >= 2 /\ OpIs(Last, "negate") /\ NegateInRange(Current, Last))
        => mem = [Current EXCEPT ![NegTarget(Current, Last).n] =
                      Num(-(Current[NegEffective(Current, Last).n].n))]

\* C13 witness: the instruction before the Negate wrote the cell destPtr, which
\* is also the cell at the effective address, so that the Negate read a value
\* and used a target that the memory of the run's start did not hold.
Wit_C13_NegateAtExecutionTime ==
    /\ Completed /\ pc >= 2 /\ OpIs(Last, "negate") /\ NegateInRange(Current, Last)
    /\ OpIs(Before, "const") /\ Before[3] = NegDestPtr(Last)
    /\ NegEffective(Current, Last) = NegDestPtr(Last)
    /\ NegTarget(Current, Last) # NegTarget(ZeroMem, Last)
    /\ Current[NegEffective(Current, Last).n] # Num(0)
    /\ NegTarget(Current, Last) # NegDestPtr(Last)

-----------------------------------------------------------------------------
(* Translator.                                                              *)

\* pr3asm.py has run
Translated == stage # "source"

\* the descriptor names one of the four opcodes
HasOpcode(d) == Has(d, "op") /\ d.op.t = "str" /\ d.op.s \in OpNames

\* the operand fields an opcode requires
Required(opname) ==
    CASE opname = "const" -> {"value", "adress"}
      [] opname \in {"read", "write"} -> {"adressB", "adressC"}
      [] opname = "negate" -> {"shift", "adressC", "adressD"}

ValidDescriptor(d) == HasOpcode(d) /\ Required(d.op.s) \subseteq DOMAIN d

\* the instruction a valid descriptor stands for
Lowering(d) ==
    CASE d.op.s = "const" -> <<Str("const"), d.value, d.adress>>
      [] d.op.s = "read" -> <<Str("read"), d.adressB, d.adressC>>
      [] d.op.s = "write" -> <<Str("write"), d.adressB, d.adressC>>
      [] d.op.s = "negate" -> <<Str("negate"), d.shift, d.adressC, d.adressD>>

\* C5: a list of valid descriptors translates to a Program of the same length
\* whose i-th instruction is the lowering of the i-th descriptor.
Thm_C5_Lowering ==
    (Translated /\ \A i \in 1 .. Len(source) : ValidDescriptor(source[i]))
        => /\ stage # "asm_failed"
           /\ Len(ir) = Len(source)
           /\ \A i \in 1 .. Len(source) : ir[i] = Lowering(source[i])

\* C5 witness: two valid descriptors of different opcodes, a write among them,
\* were translated.
Wit_C5_Lowering ==
    /\ stage = "assembled"
    /\ Len(source) = 2
    /\ \A i \in 1 .. Len(source) : ValidDescriptor(source[i])
    /\ source[1].op # source[2].op
    /\ source[2].op = Str("write")
    /\ source[2].adressB # source[2].adressC

\* C6 (as claimed): translate fails whenever a descriptor's opcode name is none
\* of const, read, write, negate.
Cex_C6_UnknownOpcode ==
    (Translated /\ \E i \in 1 .. Len(source) : Has(source[i], "op") /\ ~HasOpcode(source[i]))
        => stage = "asm_failed"

\* a descriptor translate cannot read: no opcode at all, or a required field
\* absent
LacksField(d) == ~Has(d, "op") \/ (HasOpcode(d) /\ ~(Required(d.op.s) \subseteq DOMAIN d))

FirstLacking == CHOOSE i \in 1 .. Len(source) :
    LacksField(source[i]) /\ \A j \in 1 .. (i - 1) : ~LacksField(source[j])

\* C7: when a descriptor lacks a field its opcode requires, translate fails, the
\* error names a field that the first such descriptor lacks, and no Program is
\* returned or written.
Thm_C7_MissingField ==
    (Translated /\ \E i \in 1 .. Len(source) : LacksField(source[i]))
        => /\ stage = "asm_failed"
           /\ asmError.kind = "KeyError"
           /\ ~Has(source[FirstLacking], asmError.key)
           /\ \/ asmError.key = "op"
              \/ asmError.key \in Required(source[FirstLacking].op.s)
           /\ ir = <<>>
           /\ ~file.written

\* C7 witness: translate failed on the second descriptor, a negate without its
\* adressD, after lowering a valid first one.
Wit_C7_MissingField ==
    /\ stage = "asm_failed"
    /\ Len(source) = 2
    /\ ValidDescriptor(source[1])
    /\ asmError = KeyError("adressD")

\* C8 (as claimed): translate fails whenever a required operand field holds a
\* value that is not an integer.
Cex_C8_InvalidOperand ==
    (Translated /\ \E i \in 1 .. Len(source) :
            /\ ValidDescriptor(source[i])
            /\ \E f \in Required(source[i].op.s) : ~IsInt(source[i][f]))
        => stage = "asm_failed"

\* C9 (as claimed): translate rejects a descriptor carrying a field its opcode
\* does not require.
Cex_C9_ExtraField ==
    (Translated /\ \E i \in 1 .. Len(source) :
            /\ HasOpcode(source[i])
            /\ DOMAIN source[i] \ ({"op"} \cup Required(source[i].op.s)) # {})
        => stage = "asm_failed"

-----------------------------------------------------------------------------
(* The pipeline and the run as a whole.                                     *)

\* pr3inter.py has read the file
Loaded == stage \in {"running", "done", "fault", "load_failed"}

\* C14 (as claimed): the Program the interpreter obtains from the file is the
\* instruction sequence translate returned.
Cex_C14_RoundTrip ==
    Loaded => stage # "load_failed" /\ program = ir

\* C15: the empty descriptor list translates to the empty Program, and running
\* it ends successfully with every cell still zero.
Thm_C15_Empty ==
    source = <<>> =>
        /\ stage \notin {"asm_failed", "load_failed", "fault"}
        /\ Translated => ir = <<>> /\ file = [written |-> TRUE, text |-> <<>>]
        /\ stage \in {"running", "done"}
              => program = <<>> /\ pc = 0 /\ \A c \in Cells : mem[c] = Num(0)
        /\ stage = "running" => ENABLED Finish

\* C15 witness: the run of the empty Program has ended.
Wit_C15_Empty ==
    source = <<>> /\ stage = "done"

\* C16: the memory has MemSize cells in every state of a run; no instruction,
\* completed or failed, adds or removes one.
Thm_C16_FixedSize ==
    DOMAIN mem = Cells /\ DOMAIN pre = Cells

\* C16 witness: a run has ended after instructions that set at least two cells.
Wit_C16_FixedSize ==
    stage = "done" /\ Cardinality({c \in Cells : mem[c] # Num(0)}) >= 2

\* C17: the program counter starts at 0, moves forward by exactly one with each
\* completed instruction, which is the one at that index, stays where it is on
\* a fault, and execute returns only when it has reached the Program's end.
Thm_C17_InOrder ==
    [][/\ (stage # "running" /\ stage' = "running") => pc' = 0
       /\ (stage = "running" /\ stage' = "running")
             => /\ pc' = pc + 1
                /\ pc' <= Len(program)
                /\ program' = program
                /\ pre' = mem
       /\ (stage = "running" /\ stage' = "fault") => pc' = pc /\ pc < Len(program)
       /\ (stage = "running" /\ stage' = "done") => pc' = pc /\ pc = Len(program)
       /\ stage \in {"done", "fault"} => pc' = pc]_vars

\* C17 witness: a run of two instructions has ended, with the memory that only
\* this order of the two produces.
Wit_C17_InOrder ==
    /\ stage = "done"
    /\ Len(program) = 2
    /\ pc = 2
    /\ step(step(ZeroMem, program[2]).mem, program[1]).mem # mem

\* execute has returned or raised
Terminated == stage \in {"done", "fault"}

\* C18: every run of execute ends, with success or with a fault, and never has
\* completed more instructions than the Program holds.
Thm_C18_Terminates ==
    /\ [](pc <= Len(program))
    /\ (stage = "running") ~> Terminated

\* C18 witness: a run of a Program of the greatest length has ended with success.
Wit_C18_Terminates ==
    stage = "done" /\ pc = Len(program) /\ pc = MaxProg

\* C19 (as claimed): every call of execute starts on the all-zero memory.
Cex_C19_FreshMemory ==
    (stage = "running" /\ pc = 0) => mem = ZeroMem

\* a descriptor that is not one of the four instructions with integer operands
Malformed(d) ==
    \/ LacksField(d)
    \/ ~HasOpcode(d)
    \/ \E f \in Required(d.op.s) : ~IsInt(d[f])

\* C20 (as claimed): when a descriptor of the list is malformed, no Program is
\* written and the interpreter runs nothing.
Cex_C20_RejectedBeforeExecution ==
    (\E i \in 1 .. Len(source) : Malformed(source[i]))
        => ~file.written /\ ~Loaded

-----------------------------------------------------------------------------
(* What an error carries.                                                   *)

\* the exception that leaves execute when a subscript or an operator fails: it
\* is the one the list or the operator raised, with its type; execute has no
\* handler that adds anything to it
raised(kind) == [type |-> kind]

\* C21 (as claimed): a fault of the interpreter carries the index of the
\* failing instruction in the Program and that instruction's opcode.
Cex_C21_FaultNamesInstruction ==
    Faulted =>
        LET e == raised(fault)
        IN /\ Has(e, "index") /\ e.index = pc
           /\ Has(e, "opcode") /\ e.opcode = Failing[1]

\* C22 (as claimed): an error of the translator carries the position of the
\* offending descriptor in the input list and that descriptor's opcode.
Cex_C22_ErrorNamesDescriptor ==
    stage = "asm_failed" =>
        /\ Has(asmError, "position") /\ asmError.position = FirstLacking
        /\ Has(asmError, "opcode") /\ asmError.opcode = source[FirstLacking].op

-----------------------------------------------------------------------------
(* Loading the persisted Program.                                           *)

\* the number of operands each instruction record has
Arity(opname) == IF opname = "negate" THEN 3 ELSE 2

\* a group of the file is an instruction record: one of the four tags, followed
\* by exactly the operands of that tag, all of them integer literals
IsRecord(group) ==
    /\ Len(group) >= 1
    /\ group[1].k = "quoted" /\ group[1].s \in OpNames
    /\ Len(group) = 1 + Arity(group[1].s)
    /\ \A j \in 2 .. Len(group) : group[j].k = "number"

\* C23 (as claimed): a file that is not a list of instruction records is
\* rejected when it is loaded, and loading leaves the memory as it was, all
\* zeros, whatever the file holds.
Cex_C23_SchemaCheckedLoad ==
    Loaded =>
        /\ (\E i \in 1 .. Len(file.text) : ~IsRecord(file.text[i]))
              => stage = "load_failed"
        /\ (pc = 0 /\ stage \in {"running", "load_failed"}) => mem = ZeroMem

-----------------------------------------------------------------------------
(* Frame of an instruction.                                                 *)

\* the cells whose value the last completed instruction changed
Changed == {c \in Cells : mem[c] # pre[c]}

\* C24: an instruction that completes changes at most one cell: Const and Read
\* no cell but dest, Write no cell but src, Negate no cell but the one
\* mem[destPtr] names; every other cell holds what it held before.
Thm_C24_Frame ==
    Completed =>
        /\ Cardinality(Changed) <= 1
        /\ (OpIs(Last, "const") /\ InRange(Last[3])) => Changed \subseteq {Last[3].n}
        /\ (OpIs(Last, "read") /\ InRange(Last[3])) => Changed \subseteq {Last[3].n}
        /\ (OpIs(Last, "write") /\ InRange(Last[2])) => Changed \subseteq {Last[2].n}
        /\ (OpIs(Last, "negate") /\ InRange(NegDestPtr(Last)) /\ InRange(NegTarget(pre, Last)))
              => Changed \subseteq {NegTarget(pre, Last).n}

\* C24 witness: a Negate changed its target cell while another cell, next to
\* it, held a value that is not zero.
Wit_C24_Frame ==
    /\ Completed /\ OpIs(Last, "negate")
    /\ InRange(NegDestPtr(Last)) /\ InRange(NegTarget(pre, Last))
    /\ Changed = {NegTarget(pre, Last).n}
    /\ pre[(NegTarget(pre, Last).n + 1) % MemSize] # Num(0)

-----------------------------------------------------------------------------
(* Read and Write.                                                          *)

\* the Write that mirrors a Read, and the Read that mirrors a Write: the other
\* opcode with the two operands exchanged
Mirror(ins) ==
    <<IF OpIs(ins, "read") THEN Str("write") ELSE Str("read"), ins[3], ins[2]>>

\* operand values in range, counted from the end, out of range, and no integers
AnyOperands == {Num(a) : a \in AddrOps \cup {-MemSize - 1, MemSize - 1}} \cup {None, Str("x")}

\* on memories that are not zeroed, Read{a, b} and Write{b, a} end alike
MirrorOnAnyMemory ==
    \A m \in AnyMems \cup {MemOf(<<1, 2, 3, 4, 0>>)} : \A a \in AnyOperands : \A b \in AnyOperands :
        step(m, <<Str("read"), a, b>>) = step(m, <<Str("write"), b, a>>)

\* C25: Read{src = a, dest = b} and Write{src = b, dest = a} are the same
\* instruction: on every memory and for all operand values, in range or not,
\* both leave the same memory or fail with the same fault.
Thm_C25_Mirror ==
    /\ (Completed /\ (OpIs(Last, "read") \/ OpIs(Last, "write")) /\ Len(Last) = 3)
          => step(pre, Mirror(Last)) = [mem |-> mem, fault |-> "none"]
    /\ (Faulted /\ (OpIs(Failing, "read") \/ OpIs(Failing, "write")) /\ Len(Failing) = 3)
          => step(mem, Mirror(Failing)) = [mem |-> mem, fault |-> fault]
    /\ MirrorOnAnyMemory

\* C25 witness: a Read between two different cells changed the memory, and the
\* Write with the same operands, not exchanged, would have left another one.
Wit_C25_Mirror ==
    /\ Completed /\ OpIs(Last, "read") /\ Last[2] # Last[3] /\ mem # pre
    /\ step(pre, Mirror(Last)).mem # step(pre, <<Str("write"), Last[2], Last[3]>>).mem

-----------------------------------------------------------------------------
(* Translator and interpreter together.                                     *)

\* the source is a list of valid descriptors; Descriptor is the one whose
\* instruction completed last, Pending the one whose instruction failed
ValidSource == \A i \in 1 .. Len(source) : ValidDescriptor(source[i])
Descriptor == source[pc]
Pending == source[pc + 1]

\* the addresses a negate descriptor resolves on memory m lie in [0, MemSize)
\* and the value it negates is an integer
NegateDescriptorInRange(m, d) ==
    /\ IsInt(d.shift) /\ InRange(d.adressC) /\ InRange(d.adressD)
    /\ InRange(add(m[d.adressC.n], d.shift))
    /\ InRange(m[d.adressD.n])
    /\ IsInt(m[m[d.adressC.n].n + d.shift.n])

\* the memory a descriptor stands for, on memory m, when its addresses are in
\* range
Effect(m, d) ==
    CASE d.op.s = "const" -> [m EXCEPT ![d.adress.n] = d.value]
      [] d.op.s = "read" -> [m EXCEPT ![d.adressC.n] = m[d.adressB.n]]
      [] d.op.s = "write" -> [m EXCEPT ![d.adressB.n] = m[d.adressC.n]]
      [] d.op.s = "negate" ->
            [m EXCEPT ![m[d.adressD.n].n] = Num(-(m[m[d.adressC.n].n + d.shift.n].n))]

DescriptorInRange(m, d) ==
    CASE d.op.s = "const" -> InRange(d.adress)
      [] d.op.s \in {"read", "write"} -> InRange(d.adressB) /\ InRange(d.adressC)
      [] d.op.s = "negate" -> NegateDescriptorInRange(m, d)

\* C26: translate emits the operands in the order execute takes them: when a
\* list of valid descriptors is translated and executed, the i-th instruction
\* has the effect of the i-th descriptor, const(value, adress): mem[adress] :=
\* value; read(adressB, adressC): mem[adressC] := mem[adressB]; write(adressB,
\* adressC): mem[adressB] := mem[adressC]; negate(shift, adressC, adressD):
\* mem[mem[adressD]] := -mem[mem[adressC] + shift].
Thm_C26_Layout ==
    /\ (ValidSource /\ Completed /\ DescriptorInRange(pre, Descriptor))
          => mem = Effect(pre, Descriptor)
    /\ ~(ValidSource /\ Faulted /\ DescriptorInRange(mem, Pending))

\* C26 witness: the second descriptor of a valid list, a negate whose base
\* pointer differs from its shift and from its other pointer, had its effect
\* on a memory the first descriptor had set.
Wit_C26_Layout ==
    /\ ValidSource /\ Completed /\ pc = 2
    /\ Descriptor.op = Str("negate") /\ DescriptorInRange(pre, Descriptor)
    /\ Descriptor.shift # Descriptor.adressC
    /\ Descriptor.adressC # Descriptor.adressD
    /\ mem # pre

-----------------------------------------------------------------------------
(* Instructions with another opcode.                                        *)

\* the opcode of the instruction is one of the four
KnownOp(ins) == \E o \in OpNames : OpIs(ins, o)

\* C27: an instruction whose opcode is none of const, negate, read, write is
\* skipped: it raises nothing, leaves every cell as it was, and the run goes on
\* with the instruction after it.
Thm_C27_Skipped ==
    /\ (Completed /\ ~KnownOp(Last))
          => /\ mem = pre
             /\ pc < Len(program) => stage = "running"
    /\ ~(Faulted /\ ~KnownOp(Failing))

\* C27 witness: between a Const and a Read stood an instruction with another
\* opcode; the Read completed and copied what the Const had stored.
Wit_C27_Skipped ==
    /\ Completed /\ pc = 3
    /\ OpIs(program[1], "const") /\ ~KnownOp(program[2]) /\ OpIs(Last, "read")
    /\ Len(program[2]) > 1
    /\ pre # ZeroMem /\ mem # pre

-----------------------------------------------------------------------------
(* Negate twice.                                                            *)

\* the memory before the instruction that ran before the last one
BeforeBoth == executed(program, pc - 2)

\* mem[base] + shift = mem[destPtr] = t on memory m, with t in range and
\* different from base and from destPtr
SameCell(m, ins) ==
    /\ index(NegBase(ins)).err = "none"
    /\ index(NegDestPtr(ins)).err = "none"
    /\ LET t == m[index(NegDestPtr(ins)).cell]
       IN /\ add(m[index(NegBase(ins)).cell], ins[2]) = t
          /\ InRange(t)
          /\ t # NegBase(ins)
          /\ t # NegDestPtr(ins)

\* the same Negate completed twice in a row, the first time on BeforeBoth
NegatedTwice ==
    /\ Completed /\ pc >= 2
    /\ OpIs(Last, "negate") /\ Before = Last
    /\ step(BeforeBoth, Before) = [mem |-> pre, fault |-> "none"]

\* C28 (as claimed): when Negate{shift, base, destPtr} reads and writes the
\* same cell t, different from base and destPtr, executing it twice in a row
\* restores the memory it started on.
Cex_C28_Involution ==
    (NegatedTwice /\ SameCell(BeforeBoth, Last)) => mem = BeforeBoth

====
